---- MODULE Spec2Model ----
(***************************************************************************)
(* Authentication core of the Reflex demo application: the login view      *)
(* (app/auth/routes.py), the User model's password hashing                 *)
(* (app/models.py), admin seeding (app/__init__.py) and the create_admin   *)
(* CLI (create_admin.py); and the administration of files: the snippet     *)
(* seeding (data/snippets/__init__.py) and the admin routes                *)
(* (app/admin/routes.py).                                                  *)
(*                                                                         *)
(* Text is modelled as a sequence of one-character strings, so that        *)
(* strip(), lower() and urlsplit() are computed character by character.    *)
(***************************************************************************)
EXTENDS Integers, Sequences, FiniteSets, TLC

VARIABLES
    users,                \* the users table: a sequence of rows
    session,              \* per browser session: the logged-in user's id, or 0
    req,                  \* per browser session: its login request and its locals
    dummy_password_hash,  \* the module constant _DUMMY_PASSWORD_HASH
    stale,                \* history: the users table was written while the
                          \* session's request record was standing
    uploads,              \* the upload directory: relative path -> content
    scenarios,            \* the scenario directory: file name -> content
    audit_log,            \* the audit_logs table: a sequence of entries
    areq                  \* per browser session: its admin request

\* what the admin routes and the snippet seeding work on
files == <<uploads, scenarios, audit_log, areq>>

vars == <<users, session, req, dummy_password_hash, stale,
          uploads, scenarios, audit_log, areq>>

----------------------------------------------------------------------------
(* Bounds of the model *)

\* the number of rows the users table may hold
MaxUsers == 2

----------------------------------------------------------------------------
(* Text helpers *)

\* Python None / SQL NULL for a text value
NoneStr == <<"<None>">>

\* str.lower() on one character
LowerChar(c) == CASE c = "A" -> "a"
                  [] c = "B" -> "b"
                  [] c = "H" -> "h"
                  [] OTHER -> c

\* str.lower()
Lower(s) == [i \in 1..Len(s) |-> LowerChar(s[i])]

\* characters str.strip() removes
IsSpace(c) == c \in {" ", "\t"}

RECURSIVE LStrip(_)
LStrip(s) == IF s # <<>> /\ IsSpace(Head(s)) THEN LStrip(Tail(s)) ELSE s

RECURSIVE RStrip(_)
RStrip(s) == IF s # <<>> /\ IsSpace(s[Len(s)])
             THEN RStrip(SubSeq(s, 1, Len(s) - 1))
             ELSE s

\* str.strip()
Strip(s) == RStrip(LStrip(s))

\* secrets.compare_digest on two texts: equality of content
CompareDigest(a, b) == a = b

----------------------------------------------------------------------------
(* Password hashing.                                                       *)
(* A hash string is modelled by its pieces under split("$", 2):            *)
(*   <<>>                      the empty string                            *)
(*   <<text>>                  a string with fewer than two "$"            *)
(*   <<method, salt, hashval>> a string "method$salt$hashval"              *)
(* hashval is the digest, a record of what it was computed from.           *)

\* salts the hashing functions may draw
Salts == {"s1"}

\* the hash methods werkzeug's _hash_internal implements
WerkzeugMethods == {"scrypt", "pbkdf2"}

\* the digest a method computes from salt and password
Digest(method, salt, password) == [alg |-> method, salt |-> salt, pw |-> password]

\* werkzeug.security.generate_password_hash(password), with the salt drawn
GeneratePasswordHash(password, salt) ==
    <<"scrypt", salt, Digest("scrypt", salt, password)>>

\* passlib bcrypt.hash(password): "$2b$12$<salt><digest>"; split("$", 2)
\* gives method "", salt "2b" and the remainder "12$<salt><digest>"
BcryptHash(password, salt) ==
    <<"", "2b", Digest("bcrypt", salt, password)>>

\* werkzeug.security.check_password_hash(pwhash, password): split("$", 2)
\* must give three pieces, then _hash_internal(method, salt, password) is
\* compared with hashval. "True", "False", or "ValueError" when
\* _hash_internal does not know the method
CheckPasswordHash(pwhash, password) ==
    IF Len(pwhash) # 3
    THEN "False"
    ELSE IF pwhash[1] \notin WerkzeugMethods
         THEN "ValueError"
         ELSE IF Digest(pwhash[1], pwhash[2], password) = pwhash[3]
              THEN "True"
              ELSE "False"

\* auth.routes._verify_password(stored_hash, candidate)
VerifyPassword(stored_hash, candidate) ==
    IF stored_hash = <<>>
    THEN "False"
    ELSE CheckPasswordHash(stored_hash, candidate)

----------------------------------------------------------------------------
(* The users table (app/models.py).  A row's id is its position.           *)

\* the absent user (Python None) of the login view's local `user`
NoUser == [id |-> 0, username |-> NoneStr, email |-> NoneStr,
           password_hash |-> <<>>, is_admin |-> FALSE]

\* passwords accounts are given
PW1 == <<"p", "a", "s", "s", "w", "o", "r", "d">>
PW2 == <<"l", "e", "t", "m", "e", "i", "n", "1">>

\* the password behind the module's dummy hash
DummyPassword == <<"d", "u", "m", "m", "y", "-", "p", "a", "s", "s", "w", "o", "r", "d">>

\* User.set_password(password) on row u, with the salt bcrypt draws
SetPassword(u, password, salt) ==
    [u EXCEPT !.password_hash = BcryptHash(password, salt)]

\* a new User(username=..., is_admin=True, email=...) followed by
\* set_password, as it is inserted with the next id
NewAdmin(store, username, email, password, salt) ==
    SetPassword([id |-> Len(store) + 1, username |-> username, email |-> email,
                 password_hash |-> <<>>, is_admin |-> TRUE], password, salt)

\* User.query.filter_by(username=username).first(): exact match, and the
\* column is unique, so at most one row
ByUsername(store, username) ==
    {i \in 1..Len(store) : store[i].username = username}

\* the UNIQUE constraint on users.email (NULLs never conflict)
EmailTaken(store, email, except) ==
    /\ email # NoneStr
    /\ \E i \in 1..Len(store) : i # except /\ store[i].email = email

\* rows the table may hold when the application starts: the database
\* file outlives the process.  Their hashes are in the format the
\* login view verifies (generate_password_hash), empty, or unparsable.
ExistingHashes ==
    { GeneratePasswordHash(PW1, "s1"), <<>>, <<"not-a-hash">> }

ExistingRow(h) ==
    [id |-> 1, username |-> <<"B">>, email |-> <<"A">>,
     password_hash |-> h, is_admin |-> FALSE]

InitialStores == { <<>> } \cup { <<ExistingRow(h)>> : h \in ExistingHashes }

\* app._seed_admin_user: ADMIN_USER / ADMIN_PASSWORD from the environment
SeedAdminUser(store, env_user, env_password, salt) ==
    IF env_user \in {NoneStr, <<>>} \/ env_password \in {NoneStr, <<>>}
    THEN store
    ELSE IF ByUsername(store, env_user) # {}
         THEN store
         ELSE Append(store, NewAdmin(store, env_user, NoneStr, env_password, salt))

\* create_admin.main after create_app(): create the user, or with
\* --update reset an existing user's password (and email when given).
\* A commit that violates the UNIQUE email constraint raises and changes
\* nothing.
CreateOrUpdate(store, username, password, email, update, salt) ==
    LET found == ByUsername(store, username) IN
    IF found # {}
    THEN LET i == CHOOSE j \in found : TRUE
             u1 == [SetPassword(store[i], password, salt) EXCEPT !.is_admin = TRUE]
             u2 == IF email \notin {NoneStr, <<>>}
                   THEN [u1 EXCEPT !.email = email] ELSE u1
         IN IF ~update THEN store
            ELSE IF EmailTaken(store, u2.email, i) THEN store
            ELSE [store EXCEPT ![i] = u2]
    ELSE IF EmailTaken(store, email, 0) THEN store
         ELSE Append(store, NewAdmin(store, username, email, password, salt))

----------------------------------------------------------------------------
(* urllib.parse.urlsplit, as far as its netloc                             *)

IsAlpha(c) == c \in {"a", "b", "d", "e", "h", "A", "B", "H"}

\* urllib.parse.scheme_chars: letters, digits, "+", "-", "."
IsSchemeChar(c) == IsAlpha(c) \/ c \in {"1", "+", "-", "."}

\* str.find(c): the first position of c in s, 0 when absent
Find(s, c) ==
    IF \E i \in 1..Len(s) : s[i] = c
    THEN CHOOSE i \in 1..Len(s) : s[i] = c /\ \A j \in 1..(i - 1) : s[j] # c
    ELSE 0

\* the url left once urlsplit has taken the scheme off: a scheme is a
\* letter followed by scheme characters up to the first ":"
AfterScheme(url) ==
    LET i == Find(url, ":") IN
    IF i > 1 /\ IsAlpha(url[1]) /\ \A j \in 1..(i - 1) : IsSchemeChar(url[j])
    THEN SubSeq(url, i + 1, Len(url))
    ELSE url

\* urllib.parse._splitnetloc(url, 2): the text between "//" and the first
\* of "/", "?", "#"
SplitNetloc(url) ==
    LET rest == SubSeq(url, 3, Len(url))
        ends == {i \in 1..Len(rest) : rest[i] \in {"/", "?", "#"}}
        delim == IF ends = {} THEN Len(rest) + 1
                 ELSE CHOOSE i \in ends : \A j \in ends : i <= j
    IN SubSeq(rest, 1, delim - 1)

\* urlsplit(url).netloc; urlsplit first strips leading blanks
Netloc(url) ==
    LET u == AfterScheme(LStrip(url)) IN
    IF Len(u) >= 2 /\ u[1] = "/" /\ u[2] = "/" THEN SplitNetloc(u) ELSE <<>>

\* url_for("main.index")
IndexUrl == <<"/">>

\* the target with the test for an absent or empty `next` left out
PostLoginTargetNoEmptyCheck(next_page) ==
    IF Netloc(next_page) # <<>> THEN IndexUrl ELSE next_page

\* login, lines 94-96: the target of the redirect after a login
PostLoginTarget(next_page) ==
    IF next_page = NoneStr \/ next_page = <<>> \/ Netloc(next_page) # <<>>
    THEN IndexUrl
    ELSE next_page

----------------------------------------------------------------------------
(* LoginForm                                                               *)

PasswordMinLen == 8
FieldMaxLen == 255

\* wtforms DataRequired: the data is non-empty once stripped
DataRequired(data) == Strip(data) # <<>>

\* wtforms Length(min, max)
LengthOk(data, min, max) == Len(data) >= min /\ Len(data) <= max

\* the form with the password's Length(min=8) left out
FormValidatesNoMinLength(csrf_ok, identifier, password) ==
    /\ csrf_ok
    /\ DataRequired(identifier) /\ LengthOk(identifier, 0, FieldMaxLen)
    /\ DataRequired(password) /\ LengthOk(password, 0, FieldMaxLen)

\* FlaskForm.validate for LoginForm: the CSRF token, then each field's
\* validators in order
FormValidates(csrf_ok, identifier, password) ==
    /\ csrf_ok
    /\ DataRequired(identifier) /\ LengthOk(identifier, 0, FieldMaxLen)
    /\ DataRequired(password) /\ LengthOk(password, PasswordMinLen, FieldMaxLen)

----------------------------------------------------------------------------
(* Files.  A directory is a function from the relative paths of its files  *)
(* to their contents; a path is the sequence of its components, a          *)
(* component a text.  Directories themselves are implicit: a path's        *)
(* parents exist when the file does.                                       *)

\* a directory without files
EmptyDir == << >>

\* names of files
F_txt == <<"f", ".", "t", "x", "t">>
G_txt == <<"g", ".", "t", "x", "t">>
DirD == <<"d">>

\* the bundled snippet tree data/snippets: a file at the top and one in a
\* subdirectory
SnippetSource ==
    (<<F_txt>> :> "snippet f") @@ (<<DirD, G_txt>> :> "snippet g")

\* the loop without the test `if target_path.exists(): continue`
SyncSnippetTreeOverwriting(source, destination) ==
    [p \in DOMAIN source \cup DOMAIN destination |->
        IF p \in DOMAIN source THEN source[p] ELSE destination[p]]

\* data.snippets.sync_snippet_tree(source, destination), by the directory
\* it leaves: every file of source (rglob, is_file) whose relative path
\* does not exist in destination is copied there (copy2); the others are
\* skipped
SyncSnippetTree(source, destination) ==
    [p \in DOMAIN source \cup DOMAIN destination |->
        IF p \in DOMAIN destination THEN destination[p] ELSE source[p]]

\* the characters werkzeug's _filename_ascii_strip_re removes, as far as
\* the texts of the model hold them
IsFilenameChar(c) == c \notin {" ", "\t", "/", ":"}

\* filename.replace(os.sep, " ")
ReplaceSep(s) == [i \in 1..Len(s) |-> IF s[i] = "/" THEN " " ELSE s[i]]

\* the length of the text's first word
RECURSIVE WordLen(_)
WordLen(s) == IF s = <<>> \/ IsSpace(Head(s)) THEN 0 ELSE 1 + WordLen(Tail(s))

\* "_".join(s.split())
RECURSIVE JoinWords(_)
JoinWords(s) ==
    LET t == LStrip(s)
        n == WordLen(t)
        rest == LStrip(SubSeq(t, n + 1, Len(t)))
    IN IF t = <<>> THEN <<>>
       ELSE IF rest = <<>> THEN SubSeq(t, 1, n)
       ELSE SubSeq(t, 1, n) \o <<"_">> \o JoinWords(rest)

\* str.strip("._")
RECURSIVE StripDots(_)
StripDots(s) ==
    IF s # <<>> /\ Head(s) \in {".", "_"} THEN StripDots(Tail(s))
    ELSE IF s # <<>> /\ s[Len(s)] \in {".", "_"}
         THEN StripDots(SubSeq(s, 1, Len(s) - 1))
         ELSE s

\* werkzeug.utils.secure_filename(filename)
SecureFilename(filename) ==
    StripDots(SelectSeq(JoinWords(ReplaceSep(filename)), IsFilenameChar))

\* str.endswith
EndsWith(s, suffix) ==
    /\ Len(s) >= Len(suffix)
    /\ SubSeq(s, Len(s) - Len(suffix) + 1, Len(s)) = suffix

\* str.rfind(c), counted from 1; 0 when c does not occur
RFind(s, c) ==
    LET hits == {i \in 1..Len(s) : s[i] = c}
    IN IF hits = {} THEN 0 ELSE CHOOSE i \in hits : \A j \in hits : j <= i

\* Path(name).suffix of a name without separators
PathSuffix(name) ==
    LET i == RFind(name, ".")
    IN IF 1 < i /\ i < Len(name) THEN SubSeq(name, i, Len(name)) ELSE <<>>

\* Path(text).name: the last component
RECURSIVE PathName(_)
PathName(s) ==
    IF s # <<>> /\ s[Len(s)] = "/" THEN PathName(SubSeq(s, 1, Len(s) - 1))
    ELSE SubSeq(s, RFind(s, "/") + 1, Len(s))

\* the suffix of scenario files
DotJson == <<".", "j", "s", "o", "n">>

\* name if it ends in ".json" (whatever the case), else name + ".json"
WithJson(name) == IF EndsWith(Lower(name), DotJson) THEN name ELSE name \o DotJson

----------------------------------------------------------------------------
(* Requests                                                                *)

\* browser sessions (a session is the signed cookie the browser holds)
Clients == {"c1", "c2"}

\* the browser sessions that send requests in Spec
ActiveClients == {"c1"}

\* what a caller may type as identifier
Identifiers == { <<>>, <<"a">>, <<" ", "A", " ">>, <<"B">>, <<"d">> }

\* what a caller may type as password
Passwords == { <<>>, <<"p", "w">>, PW1, PW2, DummyPassword }

\* what a caller may pass as ?next= (NoneStr: the parameter is absent)
NextValues ==
    { NoneStr, <<>>, <<"/", "d">>, <<"d">>, <<"/", "/", "e">>,
      <<"h", ":", "/", "/", "e", "/", "d">>, <<"h", ":", "e">>,
      <<"H", ":", "/", "/", "/", "e">> }

\* ADMIN_USER / ADMIN_PASSWORD values and the CLI's arguments
EnvUsers == { NoneStr, <<"a">> }
EnvPasswords == { PW1 }
CliUsernames == { <<"a">>, <<"A">> }
CliEmails == { NoneStr, <<"a">> }
AccountPasswords == { PW1, PW2 }

\* no response yet
NoResponse == [status |-> 0, body |-> "", flash |-> "", slept |-> FALSE,
               location |-> NoneStr]

\* redirect(location), with what was flashed before it
Redirect(location, flash) ==
    [status |-> 302, body |-> "", flash |-> flash, slept |-> FALSE,
     location |-> location]

\* render_template("auth/login.html", form=form); body tells whether the
\* form carries field errors
LoginPage(errors, flash, slept) ==
    [status |-> 200, body |-> IF errors THEN "login-with-errors" ELSE "login",
     flash |-> flash, slept |-> slept, location |-> NoneStr]

\* the error page of an exception that leaves the view
ErrorPage == [status |-> 500, body |-> "error", flash |-> "", slept |-> FALSE,
              location |-> NoneStr]

\* a client with no request
IdleReq ==
    [pc |-> "idle", csrf_ok |-> FALSE, identifier |-> <<>>, password |-> <<>>,
     identifier_input |-> <<>>, user |-> NoUser, match_attr |-> "None",
     password_matches |-> "None", next |-> NoneStr, hash_checks |-> 0,
     outcome |-> "None", response |-> NoResponse]

\* current_user.is_authenticated: the session names a row load_user finds
IsAuthenticated(c) == session[c] \in 1..Len(users)

\* a client with no admin request; outcome is how its last one ended
IdleAdminReq ==
    [pc |-> "idle", route |-> "None", user |-> 0, target |-> <<>>,
     source |-> <<>>, content |-> "", outcome |-> "None"]

\* the directories as earlier runs left them: the upload directory
\* seeded with the snippets, no scenario, no audit entry
Init ==
    /\ users \in InitialStores
    /\ session = [c \in Clients |-> 0]
    /\ req = [c \in Clients |-> IdleReq]
    /\ dummy_password_hash \in {GeneratePasswordHash(DummyPassword, s) : s \in Salts}
    /\ stale = [c \in Clients |-> FALSE]
    /\ uploads = SyncSnippetTree(SnippetSource, EmptyDir)
    /\ scenarios = EmptyDir
    /\ audit_log = <<>>
    /\ areq = [c \in Clients |-> IdleAdminReq]

\* GET /auth/login
LoginGet(c) ==
    /\ req[c].pc \in {"idle", "done"}
    /\ req' = [req EXCEPT ![c] =
           IF IsAuthenticated(c)
           THEN [IdleReq EXCEPT !.pc = "done", !.outcome = "AlreadyAuthenticated",
                                !.response = Redirect(IndexUrl, "")]
           ELSE [IdleReq EXCEPT !.pc = "done", !.outcome = "Page",
                                !.response = LoginPage(FALSE, "", FALSE)]]
    /\ stale' = [stale EXCEPT ![c] = FALSE]
    /\ UNCHANGED <<users, session, dummy_password_hash>>
    /\ UNCHANGED files

\* the normalisation with strip() left out
NormalizeWithoutStrip(identifier) == Lower(identifier)

\* lines 65-66: identifier_input = form.identifier.data.strip().lower()
NormalizeIdentifier(identifier) == Lower(Strip(identifier))

\* POST /auth/login, lines 60-66: the guard on current_user, form
\* validation, and the identifier's normalisation
Submit(c, csrf_ok, identifier, password) ==
    /\ req[c].pc \in {"idle", "done"}
    /\ LET r == [IdleReq EXCEPT !.csrf_ok = csrf_ok, !.identifier = identifier,
                                !.password = password]
       IN req' = [req EXCEPT ![c] =
           IF IsAuthenticated(c)
           THEN [r EXCEPT !.pc = "done", !.outcome = "AlreadyAuthenticated",
                          !.response = Redirect(IndexUrl, "")]
           ELSE IF ~FormValidates(csrf_ok, identifier, password)
           THEN [r EXCEPT !.pc = "done", !.outcome = "Invalid",
                          !.response = LoginPage(TRUE, "", FALSE)]
           ELSE [r EXCEPT !.pc = "lookup_email",
                          !.identifier_input = NormalizeIdentifier(identifier)]]
    /\ stale' = [stale EXCEPT ![c] = FALSE]
    /\ UNCHANGED <<users, session, dummy_password_hash>>
    /\ UNCHANGED files

\* the rows User.query.filter(func.lower(User.<column>) == value) selects;
\* lower(NULL) is NULL and equals nothing
RowsByLower(store, column, value) ==
    {i \in 1..Len(store) :
        LET v == IF column = "email" THEN store[i].email ELSE store[i].username
        IN v # NoneStr /\ Lower(v) = value}

\* lines 68-71: the lookup by email; .first() has no ORDER BY, so any of
\* the selected rows may be the one returned
LookupEmail(c) ==
    /\ req[c].pc = "lookup_email"
    /\ LET rows == RowsByLower(users, "email", req[c].identifier_input) IN
       IF rows = {}
       THEN req' = [req EXCEPT ![c].pc = "lookup_username"]
       ELSE \E i \in rows :
              req' = [req EXCEPT ![c].pc = "verify", ![c].user = users[i],
                                 ![c].match_attr = "email"]
    /\ UNCHANGED <<users, session, dummy_password_hash, stale>>
    /\ UNCHANGED files

\* lines 72-75: the lookup by username, when no email matched
LookupUsername(c) ==
    /\ req[c].pc = "lookup_username"
    /\ LET rows == RowsByLower(users, "username", req[c].identifier_input) IN
       IF rows = {}
       THEN req' = [req EXCEPT ![c].pc = "verify"]
       ELSE \E i \in rows :
              req' = [req EXCEPT ![c].pc = "verify", ![c].user = users[i],
                                 ![c].match_attr = "username"]
    /\ UNCHANGED <<users, session, dummy_password_hash, stale>>
    /\ UNCHANGED files

\* the hash taken from the user also when there is none
RecordHashWithoutDummy(r) == r.user.password_hash

\* line 77: the hash the password is verified against
RecordHash(r) ==
    IF r.user # NoUser THEN r.user.password_hash ELSE dummy_password_hash

\* the verification with the dummy hash generated anew in the view
VerifyRegeneratingDummy(c) ==
    /\ req[c].pc = "verify"
    /\ LET m == VerifyPassword(RecordHash(req[c]), req[c].password) IN
       req' = [req EXCEPT ![c] =
           IF m = "ValueError"
           THEN [@ EXCEPT !.pc = "done", !.hash_checks = @ + 1,
                          !.outcome = "Error", !.response = ErrorPage]
           ELSE [@ EXCEPT !.pc = "decide", !.hash_checks = @ + 1,
                          !.password_matches = m]]
    /\ dummy_password_hash' = GeneratePasswordHash(DummyPassword, "s2")
    /\ UNCHANGED <<users, session, stale>>
    /\ UNCHANGED files

\* lines 77-78: the hash verification; an exception of
\* check_password_hash leaves the view and becomes the error page
Verify(c) ==
    /\ req[c].pc = "verify"
    /\ LET m == VerifyPassword(RecordHash(req[c]), req[c].password) IN
       req' = [req EXCEPT ![c] =
           IF m = "ValueError"
           THEN [@ EXCEPT !.pc = "done", !.hash_checks = @ + 1,
                          !.outcome = "Error", !.response = ErrorPage]
           ELSE [@ EXCEPT !.pc = "decide", !.hash_checks = @ + 1,
                          !.password_matches = m]]
    /\ UNCHANGED <<users, session, dummy_password_hash, stale>>
    /\ UNCHANGED files

\* lines 80-85: the stored identifier the lookup matched on
StoredIdentifier(r) ==
    IF r.match_attr = "email"
    THEN Lower(IF r.user.email = NoneStr THEN <<>> ELSE r.user.email)
    ELSE IF r.match_attr = "username"
    THEN Lower(IF r.user.username = NoneStr THEN <<>> ELSE r.user.username)
    ELSE <<>>

\* lines 87-89
IdentifierMatches(r) ==
    r.user # NoUser /\ CompareDigest(StoredIdentifier(r), r.identifier_input)

\* the condition with the password's verification left out
LoginAcceptsWithoutPassword(r) ==
    r.user # NoUser /\ IdentifierMatches(r)

\* line 91: the condition under which login_user is called
LoginAccepts(r) ==
    r.user # NoUser /\ IdentifierMatches(r) /\ r.password_matches = "True"

\* the decision with the user's id kept in one place for every caller
DecideSharedSession(c) ==
    /\ req[c].pc = "decide"
    /\ IF LoginAccepts(req[c])
       THEN \E next_page \in NextValues :
              /\ session' = [d \in Clients |-> req[c].user.id]
              /\ req' = [req EXCEPT ![c].pc = "done", ![c].next = next_page,
                            ![c].outcome = "Authenticated",
                            ![c].response =
                                Redirect(PostLoginTarget(next_page),
                                         "Successfully signed in.")]
       ELSE /\ session' = session
            /\ req' = [req EXCEPT ![c].pc = "done", ![c].outcome = "Rejected",
                          ![c].response =
                              LoginPage(FALSE, "Invalid email or password.", TRUE)]
    /\ UNCHANGED <<users, dummy_password_hash, stale>>
    /\ UNCHANGED files

\* lines 80-100: the comparison and the decision; on success
\* login_user(user) puts the user's id in the session and the view
\* redirects to the post-login target
Decide(c) ==
    /\ req[c].pc = "decide"
    /\ IF LoginAccepts(req[c])
       THEN \E next_page \in NextValues :
              /\ session' = [session EXCEPT ![c] = req[c].user.id]
              /\ req' = [req EXCEPT ![c].pc = "done", ![c].next = next_page,
                            ![c].outcome = "Authenticated",
                            ![c].response =
                                Redirect(PostLoginTarget(next_page),
                                         "Successfully signed in.")]
       ELSE /\ session' = session
            /\ req' = [req EXCEPT ![c].pc = "done", ![c].outcome = "Rejected",
                          ![c].response =
                              LoginPage(FALSE, "Invalid email or password.", TRUE)]
    /\ UNCHANGED <<users, dummy_password_hash, stale>>
    /\ UNCHANGED files

\* the host cancels a request that is under way (timeout, disconnect)
Abort(c) ==
    /\ req[c].pc \in {"lookup_email", "lookup_username", "verify", "decide"}
    /\ req' = [req EXCEPT ![c].pc = "done", ![c].outcome = "Aborted"]
    /\ UNCHANGED <<users, session, dummy_password_hash, stale>>
    /\ UNCHANGED files

\* GET /auth/logout: login_required sends an anonymous caller to the
\* login view; logout_user() removes the user id from the session
Logout(c) ==
    /\ req[c].pc \in {"idle", "done"}
    /\ session' = [session EXCEPT ![c] = 0]
    /\ req' = [req EXCEPT ![c] = IdleReq]
    /\ stale' = [stale EXCEPT ![c] = FALSE]
    /\ UNCHANGED <<users, dummy_password_hash>>
    /\ UNCHANGED files

\* history: a write to the users table marks every standing request
MarkStale(store) ==
    [c \in Clients |-> stale[c] \/ (store # users /\ req[c].pc # "idle")]

\* create_app() at a start of the application: _ensure_directories seeds
\* the upload directory with the snippets, _initialize_database seeds the
\* admin user
AppStart(env_user, env_password, salt) ==
    /\ uploads' = SyncSnippetTree(SnippetSource, uploads)
    /\ LET seeded == SeedAdminUser(users, env_user, env_password, salt) IN
       /\ Len(seeded) <= MaxUsers
       /\ users' = seeded
       /\ stale' = MarkStale(seeded)
    /\ UNCHANGED <<session, req, dummy_password_hash>>
    /\ UNCHANGED <<scenarios, audit_log, areq>>

\* python create_admin.py username password [--email e] [--update]:
\* create_app() first (which seeds), then the create or update
CreateAdmin(env_user, env_password, username, password, email, update, salt) ==
    /\ uploads' = SyncSnippetTree(SnippetSource, uploads)
    /\ LET seeded == SeedAdminUser(users, env_user, env_password, salt)
           after == CreateOrUpdate(seeded, username, password, email, update, salt)
       IN /\ Len(after) <= MaxUsers
          /\ users' = after
          /\ stale' = MarkStale(after)
    /\ UNCHANGED <<session, req, dummy_password_hash>>
    /\ UNCHANGED <<scenarios, audit_log, areq>>

Next ==
    \/ \E c \in ActiveClients : LoginGet(c)
    \/ \E c \in ActiveClients, csrf_ok \in BOOLEAN, identifier \in Identifiers,
          password \in Passwords : Submit(c, csrf_ok, identifier, password)
    \/ \E c \in ActiveClients : LookupEmail(c)
    \/ \E c \in ActiveClients : LookupUsername(c)
    \/ \E c \in ActiveClients : Verify(c)
    \/ \E c \in ActiveClients : Decide(c)
    \/ \E c \in ActiveClients : Abort(c)
    \/ \E c \in ActiveClients : Logout(c)
    \/ \E env_user \in EnvUsers, env_password \in EnvPasswords, salt \in Salts :
          AppStart(env_user, env_password, salt)
    \/ \E env_user \in EnvUsers, env_password \in EnvPasswords,
          username \in CliUsernames, password \in AccountPasswords,
          email \in CliEmails, update \in BOOLEAN, salt \in Salts :
          CreateAdmin(env_user, env_password, username, password, email, update, salt)

Spec == Init /\ [][Next]_vars

----------------------------------------------------------------------------
(* Two browser sessions whose login requests interleave step by step, and  *)
(* the CLI changing an account while requests are under way.               *)

\* what the two callers type
ConcIdentifiers == { <<"a">>, <<"B">>, <<"d">> }
ConcPasswords == { PW1, PW2 }

\* the --email the CLI is given for the account B
ConcEmails == { <<"d">> }

NextConc ==
    \/ \E c \in Clients, identifier \in ConcIdentifiers, password \in ConcPasswords :
          Submit(c, TRUE, identifier, password)
    \/ \E c \in Clients : LookupEmail(c)
    \/ \E c \in Clients : LookupUsername(c)
    \/ \E c \in Clients : Verify(c)
    \/ \E c \in Clients : Decide(c)
    \/ \E email \in ConcEmails, salt \in Salts :
          CreateAdmin(NoneStr, PW1, <<"B">>, PW2, email, TRUE, salt)

SpecConc == Init /\ [][NextConc]_vars

----------------------------------------------------------------------------
(* The admin routes (app/admin/routes.py).  A route that writes a file     *)
(* runs in two steps, so that requests interleave as they do under a       *)
(* threaded or multi-process server: the step up to and including the      *)
(* test of the file's existence, and the step that writes and logs.        *)

\* the number of entries the audit log may hold
MaxAudit == 2

\* Length(max=120) of the scenario forms
NameMaxLen == 120

\* ALLOWED_UPLOAD_EXTENSIONS; FileAllowed of UploadForm lists the same
AllowedUploadExtensions ==
    { <<".", "h", "t", "m", "l">>, <<".", "h", "t", "m">>, <<".", "t", "x", "t">>,
      <<".", "p", "n", "g">>, <<".", "j", "p", "g">>, <<".", "x", "l", "s", "x">>,
      <<".", "d", "o", "c", "x">>, <<".", "p", "d", "f">> }

\* Regexp(r"^[A-Za-z0-9_.\-]+$"), with the blank allowed in addition for
\* the duplicate form
RegexpMatches(s, blank_allowed) ==
    /\ s # <<>>
    /\ \A i \in 1..Len(s) : IsFilenameChar(s[i]) \/ (blank_allowed /\ s[i] = " ")

\* UploadForm: CSRF, FileRequired, FileAllowed
UploadFormValidates(csrf_ok, filename) ==
    /\ csrf_ok
    /\ filename # <<>>
    /\ \E ext \in AllowedUploadExtensions : EndsWith(Lower(filename), ext)

\* ScenarioDuplicateForm
DuplicateFormValidates(csrf_ok, source_filename, new_filename) ==
    /\ csrf_ok
    /\ DataRequired(source_filename)
    /\ DataRequired(new_filename) /\ LengthOk(new_filename, 0, NameMaxLen)
    /\ RegexpMatches(new_filename, TRUE)

\* ScenarioDeleteForm
DeleteFormValidates(csrf_ok, filename) == csrf_ok /\ DataRequired(filename)

\* ScenarioCreateForm: the scenario id and the title
CreateFormValidates(csrf_ok, scenario_id, title) ==
    /\ csrf_ok
    /\ DataRequired(scenario_id) /\ LengthOk(scenario_id, 0, NameMaxLen)
    /\ RegexpMatches(scenario_id, FALSE)
    /\ DataRequired(title)

\* _scenario_file could not find the file: abort(404)
NotFound == <<>>

\* _scenario_file(directory, name): the file's name, or NotFound
ScenarioFile(directory, name) ==
    LET safe_name == SecureFilename(name) IN
    IF safe_name = <<>> THEN NotFound
    ELSE IF WithJson(safe_name) \notin DOMAIN directory THEN NotFound
    ELSE WithJson(safe_name)

\* json.loads and _validate_scenario_payload on a submitted content: a
\* content tells whether it parses, is an object, defines an id, and what
\* its "steps" is
PayloadIsValid(payload) ==
    /\ payload.parses /\ payload.object /\ payload.has_id
    /\ payload.steps = "list"

\* login_required without _require_admin
AdminGateWithoutRequireAdmin(c) ==
    IF ~IsAuthenticated(c) THEN "login" ELSE "ok"

\* @login_required, then _require_admin(): an anonymous caller is sent to
\* the login view, a user without is_admin gets 403
AdminGate(c) ==
    IF ~IsAuthenticated(c) THEN "login"
    ELSE IF ~users[session[c]].is_admin THEN "forbidden"
    ELSE "ok"

\* the request has returned: "login" (sent to the login view), "forbidden"
\* (403), "invalid" (an error is flashed), "not_found" (404), "exists"
\* (the warning that the name exists), "error" (500) or "ok" (success)
Ended(outcome) == [IdleAdminReq EXCEPT !.outcome = outcome]

\* the request of current_user has passed its tests and is about to write
Pending(c, route, target, source, content) ==
    [pc |-> "write", route |-> route, user |-> session[c], target |-> target,
     source |-> source, content |-> content, outcome |-> "None"]

\* _log_action(action, details) for the request's current_user
LogAction(user_id, action, details) ==
    Append(audit_log, [user_id |-> user_id, action |-> action, details |-> details])

\* POST /admin/upload, lines 148-174
UploadFile(c, csrf_ok, filename, content) ==
    /\ areq[c].pc = "idle"
    /\ LET name == SecureFilename(filename) IN
       areq' = [areq EXCEPT ![c] =
           IF AdminGate(c) # "ok" THEN Ended(AdminGate(c))
           ELSE IF ~UploadFormValidates(csrf_ok, filename) THEN Ended("invalid")
           ELSE IF name = <<>> THEN Ended("invalid")
           ELSE IF Lower(PathSuffix(name)) \notin AllowedUploadExtensions
                THEN Ended("invalid")
           ELSE IF <<name>> \in DOMAIN uploads THEN Ended("exists")
           ELSE Pending(c, "upload", <<name>>, <<>>, content)]
    /\ UNCHANGED <<uploads, scenarios, audit_log>>
    /\ UNCHANGED <<users, session, req, dummy_password_hash, stale>>

\* lines 176-179: file_storage.save(destination), the audit entry
UploadSave(c) ==
    /\ areq[c].pc = "write" /\ areq[c].route = "upload"
    /\ Len(audit_log) < MaxAudit
    /\ uploads' = (areq[c].target :> areq[c].content) @@ uploads
    /\ audit_log' = LogAction(areq[c].user, "upload.create", areq[c].target[1])
    /\ areq' = [areq EXCEPT ![c] = Ended("ok")]
    /\ UNCHANGED scenarios
    /\ UNCHANGED <<users, session, req, dummy_password_hash, stale>>

\* POST /admin/scenarios/duplicate, lines 207-232
DuplicateScenario(c, csrf_ok, source_filename, new_filename) ==
    /\ areq[c].pc = "idle"
    /\ LET source_file == ScenarioFile(scenarios, PathName(source_filename))
           new_name == SecureFilename(Strip(new_filename))
       IN areq' = [areq EXCEPT ![c] =
           IF AdminGate(c) # "ok" THEN Ended(AdminGate(c))
           ELSE IF ~DuplicateFormValidates(csrf_ok, source_filename, new_filename)
                THEN Ended("invalid")
           ELSE IF source_file = NotFound THEN Ended("not_found")
           ELSE IF new_name = <<>> THEN Ended("invalid")
           ELSE IF WithJson(new_name) \in DOMAIN scenarios THEN Ended("exists")
           ELSE Pending(c, "duplicate", WithJson(new_name), source_file, "")]
    /\ UNCHANGED <<uploads, scenarios, audit_log>>
    /\ UNCHANGED <<users, session, req, dummy_password_hash, stale>>

\* lines 234-240: shutil.copy2(source_file, destination), the audit
\* entry; copy2 raises when the source is gone
DuplicateCopy(c) ==
    /\ areq[c].pc = "write" /\ areq[c].route = "duplicate"
    /\ IF areq[c].source \notin DOMAIN scenarios
       THEN /\ areq' = [areq EXCEPT ![c] = Ended("error")]
            /\ UNCHANGED <<scenarios, audit_log>>
       ELSE /\ Len(audit_log) < MaxAudit
            /\ scenarios' = (areq[c].target :> scenarios[areq[c].source]) @@ scenarios
            /\ audit_log' = LogAction(areq[c].user, "scenario.duplicate", areq[c].target)
            /\ areq' = [areq EXCEPT ![c] = Ended("ok")]
    /\ UNCHANGED uploads
    /\ UNCHANGED <<users, session, req, dummy_password_hash, stale>>

\* POST /admin/scenarios/delete, lines 246-259
DeleteScenario(c, csrf_ok, filename) ==
    /\ areq[c].pc = "idle"
    /\ LET target == ScenarioFile(scenarios, PathName(filename)) IN
       areq' = [areq EXCEPT ![c] =
           IF AdminGate(c) # "ok" THEN Ended(AdminGate(c))
           ELSE IF ~DeleteFormValidates(csrf_ok, filename) THEN Ended("invalid")
           ELSE IF target = NotFound THEN Ended("not_found")
           ELSE Pending(c, "delete", target, <<>>, "")]
    /\ UNCHANGED <<uploads, scenarios, audit_log>>
    /\ UNCHANGED <<users, session, req, dummy_password_hash, stale>>

\* lines 260-264: target.unlink(), the audit entry; unlink raises when
\* the file is gone
DeleteUnlink(c) ==
    /\ areq[c].pc = "write" /\ areq[c].route = "delete"
    /\ IF areq[c].target \notin DOMAIN scenarios
       THEN /\ areq' = [areq EXCEPT ![c] = Ended("error")]
            /\ UNCHANGED <<scenarios, audit_log>>
       ELSE /\ Len(audit_log) < MaxAudit
            /\ scenarios' = [n \in DOMAIN scenarios \ {areq[c].target} |-> scenarios[n]]
            /\ audit_log' = LogAction(areq[c].user, "scenario.delete", areq[c].target)
            /\ areq' = [areq EXCEPT ![c] = Ended("ok")]
    /\ UNCHANGED uploads
    /\ UNCHANGED <<users, session, req, dummy_password_hash, stale>>

\* POST /admin/scenarios/<scenario_id>/edit, lines 270-290
EditScenario(c, csrf_ok, scenario_id, payload) ==
    /\ areq[c].pc = "idle"
    /\ LET scenario_file == ScenarioFile(scenarios, scenario_id \o DotJson) IN
       areq' = [areq EXCEPT ![c] =
           IF AdminGate(c) # "ok" THEN Ended(AdminGate(c))
           ELSE IF scenario_file = NotFound THEN Ended("not_found")
           ELSE IF ~csrf_ok THEN Ended("invalid")
           ELSE IF ~PayloadIsValid(payload) THEN Ended("invalid")
           ELSE Pending(c, "edit", scenario_file, <<>>, "edited")]
    /\ UNCHANGED <<uploads, scenarios, audit_log>>
    /\ UNCHANGED <<users, session, req, dummy_password_hash, stale>>

\* lines 291-300: scenario_file.write_text(...), the audit entry
EditWrite(c) ==
    /\ areq[c].pc = "write" /\ areq[c].route = "edit"
    /\ Len(audit_log) < MaxAudit
    /\ scenarios' = (areq[c].target :> areq[c].content) @@ scenarios
    /\ audit_log' = LogAction(areq[c].user, "scenario.update", areq[c].target)
    /\ areq' = [areq EXCEPT ![c] = Ended("ok")]
    /\ UNCHANGED uploads
    /\ UNCHANGED <<users, session, req, dummy_password_hash, stale>>

\* POST /admin/scenarios/new, lines 327-363
NewScenario(c, csrf_ok, scenario_id, title) ==
    /\ areq[c].pc = "idle"
    /\ LET safe_id == SecureFilename(Strip(scenario_id)) IN
       areq' = [areq EXCEPT ![c] =
           IF AdminGate(c) # "ok" THEN Ended(AdminGate(c))
           ELSE IF ~CreateFormValidates(csrf_ok, scenario_id, title)
                THEN Ended("invalid")
           ELSE IF safe_id = <<>> THEN Ended("invalid")
           ELSE IF safe_id \o DotJson \in DOMAIN scenarios THEN Ended("exists")
           ELSE Pending(c, "new", safe_id \o DotJson, <<>>, "template")]
    /\ UNCHANGED <<uploads, scenarios, audit_log>>
    /\ UNCHANGED <<users, session, req, dummy_password_hash, stale>>

\* lines 364-372: destination.write_text(...), the audit entry
NewWrite(c) ==
    /\ areq[c].pc = "write" /\ areq[c].route = "new"
    /\ Len(audit_log) < MaxAudit
    /\ scenarios' = (areq[c].target :> areq[c].content) @@ scenarios
    /\ audit_log' = LogAction(areq[c].user, "scenario.create", areq[c].target)
    /\ areq' = [areq EXCEPT ![c] = Ended("ok")]
    /\ UNCHANGED uploads
    /\ UNCHANGED <<users, session, req, dummy_password_hash, stale>>

\* names the administrators type
S_id == <<"s">>
T_id == <<"t">>
S_json == S_id \o DotJson

\* what the administrators submit to each route: the CSRF token's
\* validity and the form's fields
UploadInputs ==
    { <<TRUE, F_txt>>, <<TRUE, <<".", ".", "/">> \o F_txt>>,
      <<TRUE, <<".", "t", "x", "t">>>>, <<TRUE, <<"f", ".", "e", "x", "e">>>>,
      <<TRUE, <<>>>>, <<FALSE, F_txt>> }
UploadContents == { "y" }
DuplicateInputs ==
    { <<TRUE, S_json, T_id>>, <<TRUE, <<"d", "/">> \o T_id, S_id>>,
      <<TRUE, S_json, <<" ", "s", " ">>>>, <<TRUE, S_json, <<".">>>>,
      <<TRUE, S_json, <<"t", "/">>>>, <<FALSE, S_json, T_id>> }
DeleteInputs ==
    { <<TRUE, S_id>>, <<TRUE, <<"/", "t", ".", "j", "s", "o", "n">>>>,
      <<TRUE, <<>>>>, <<FALSE, S_id>> }
ValidPayload == [parses |-> TRUE, object |-> TRUE, has_id |-> TRUE, steps |-> "list"]
EditInputs ==
    { <<TRUE, S_id, ValidPayload>>, <<TRUE, T_id, ValidPayload>>,
      <<TRUE, S_id, [ValidPayload EXCEPT !.steps = "missing"]>>,
      <<TRUE, S_id, [parses |-> FALSE, object |-> FALSE, has_id |-> FALSE,
                     steps |-> "missing"]>>,
      <<FALSE, S_id, ValidPayload>> }
NewInputs ==
    { <<TRUE, T_id, <<"t">>>>, <<TRUE, S_id, <<"t">>>>, <<TRUE, <<".">>, <<"t">>>>,
      <<TRUE, T_id, <<>>>>, <<FALSE, T_id, <<"t">>>> }

\* the account B after `create_admin.py B <password> --update`
PromotedStore ==
    CreateOrUpdate(<<ExistingRow(GeneratePasswordHash(PW1, "s1"))>>,
                   <<"B">>, PW2, NoneStr, TRUE, "s1")

\* the state earlier requests and runs left: the account B, an
\* administrator or not; each browser anonymous or signed in as B; the
\* upload directory empty or with a file of the administrators' own at a
\* snippet's path; one scenario
InitAdmin ==
    /\ users \in { <<ExistingRow(GeneratePasswordHash(PW1, "s1"))>>, PromotedStore }
    /\ session \in [Clients -> {0, 1}]
    /\ req = [c \in Clients |-> IdleReq]
    /\ dummy_password_hash \in {GeneratePasswordHash(DummyPassword, s) : s \in Salts}
    /\ stale = [c \in Clients |-> FALSE]
    /\ uploads \in { EmptyDir, (<<F_txt>> :> "x") }
    /\ scenarios = (S_json :> "s0")
    /\ audit_log = <<>>
    /\ areq = [c \in Clients |-> IdleAdminReq]

NextAdmin ==
    \/ \E c \in Clients, in \in UploadInputs, content \in UploadContents :
          UploadFile(c, in[1], in[2], content)
    \/ \E c \in Clients : UploadSave(c)
    \/ \E c \in Clients, in \in DuplicateInputs :
          DuplicateScenario(c, in[1], in[2], in[3])
    \/ \E c \in Clients : DuplicateCopy(c)
    \/ \E c \in Clients, in \in DeleteInputs : DeleteScenario(c, in[1], in[2])
    \/ \E c \in Clients : DeleteUnlink(c)
    \/ \E c \in Clients, in \in EditInputs : EditScenario(c, in[1], in[2], in[3])
    \/ \E c \in Clients : EditWrite(c)
    \/ \E c \in Clients, in \in NewInputs : NewScenario(c, in[1], in[2], in[3])
    \/ \E c \in Clients : NewWrite(c)
    \/ \E salt \in Salts : AppStart(NoneStr, PW1, salt)

SpecAdmin == InitAdmin /\ [][NextAdmin]_vars

----------------------------------------------------------------------------
(* Vocabulary of the properties                                            *)

\* the password a stored hash was computed from (NoneStr: from none)
GivenPassword(h) == IF Len(h) = 3 THEN h[3].pw ELSE NoneStr

\* the request of c passed form validation and ran to its end
Concluded(c) ==
    req[c].pc = "done" /\ req[c].outcome \in {"Authenticated", "Rejected", "Error"}

\* the response of a rejected attempt: the login page, the generic
\* message, after the fixed delay
RejectedResponse == LoginPage(FALSE, "Invalid email or password.", TRUE)

\* rows whose email, resp. username, equals x when both are lower-cased
EmailRows(x) ==
    {i \in 1..Len(users) : users[i].email # NoneStr /\ Lower(users[i].email) = Lower(x)}

UsernameRows(x) ==
    {i \in 1..Len(users) : Lower(users[i].username) = Lower(x)}

----------------------------------------------------------------------------
(* C1: for every account of the store and the password it was given, a     *)
(* login attempt with the account's email or username and that password    *)
(* is Authenticated and the session holds exactly that account's id.       *)
(* Stated for attempts during which the table was not written.             *)
C1_GivenPasswordAuthenticates ==
    \A c \in Clients : \A i \in 1..Len(users) :
        ( /\ Concluded(c) /\ ~stale[c]
          /\ req[c].identifier \in {users[i].username, users[i].email}
          /\ req[c].password = GivenPassword(users[i].password_hash) )
        => (req[c].outcome = "Authenticated" /\ session[c] = i)

(* C2: an attempt is Authenticated only if an account was found, the       *)
(* identifier comparison matched and the password verified against that    *)
(* account's hash; an identifier matching no account, and a matching       *)
(* account with an incorrect password, end as Rejected.                    *)
C2_AuthenticatedOnlyIfAllMatch ==
    \A c \in Clients :
        /\ (req[c].outcome = "Authenticated") =>
              /\ req[c].user # NoUser
              /\ StoredIdentifier(req[c]) = req[c].identifier_input
              /\ GivenPassword(req[c].user.password_hash) = req[c].password
        /\ (Concluded(c) /\ req[c].user = NoUser) => req[c].outcome = "Rejected"
        /\ ( /\ Concluded(c) /\ req[c].user # NoUser
             /\ GivenPassword(req[c].user.password_hash) # req[c].password )
           => req[c].outcome = "Rejected"

(* C3: the session comes to hold an account's id only in the step that     *)
(* concludes a request as Authenticated, after the lookup found that       *)
(* account, the identifier comparison agreed and the password verified;    *)
(* a request that was cancelled, failed or was rejected leaves the caller  *)
(* unauthenticated.                                                        *)
C3_SessionOnlyOnAuthenticated ==
    /\ [][\A c \in Clients :
            (session'[c] # session[c] /\ session'[c] # 0) =>
                /\ req[c].pc = "decide"
                /\ req[c].user # NoUser
                /\ req[c].user.id = session'[c]
                /\ StoredIdentifier(req[c]) = req[c].identifier_input
                /\ req[c].hash_checks = 1
                /\ VerifyPassword(req[c].user.password_hash, req[c].password) = "True"
                /\ req'[c].outcome = "Authenticated"]_vars
    /\ [](\A c \in Clients :
            req[c].outcome \in {"Aborted", "Error", "Rejected", "Invalid", "Page"}
                => session[c] = 0)

C3_Witness ==
    \E c \in Clients :
        /\ session[c] # 0 /\ req[c].outcome = "Authenticated"
        /\ session[c] = req[c].user.id

----------------------------------------------------------------------------
(* Redirect targets                                                        *)

\* the url names a scheme: a letter and scheme characters before a ":"
HasScheme(url) ==
    \E i \in 2..Len(url) :
        /\ url[i] = ":" /\ IsAlpha(url[1])
        /\ \A j \in 1..(i - 1) : IsSchemeChar(url[j])

\* the url names a host: "//" and then a host, before any other "/"
HasHost(url) ==
    \E i \in 1..Len(url) :
        /\ url[i] = "/" /\ i + 2 <= Len(url) /\ url[i + 1] = "/"
        /\ url[i + 2] \notin {"/", "?", "#"}
        /\ \A j \in 1..(i - 1) : url[j] # "/"

\* a bare same-origin path: no scheme, no host, no leading blank
IsBarePath(url) ==
    /\ url # NoneStr /\ url # <<>>
    /\ ~IsSpace(url[1])
    /\ ~HasScheme(url) /\ ~HasHost(url)

(* C4: a `next` that names a scheme and/or a host is replaced by the       *)
(* default target; only a bare same-origin path is kept.                   *)
C4_OnlyBarePathKept ==
    \A c \in Clients :
        (req[c].outcome = "Authenticated" /\ ~IsBarePath(req[c].next))
            => req[c].response.location = IndexUrl

(* C5: the redirect target is the requested value or the default: the      *)
(* default when `next` is absent or empty, `next` itself, unchanged, when   *)
(* it is a non-empty relative path.                                        *)
C5_TargetIsNextOrDefault ==
    \A c \in Clients :
        req[c].outcome = "Authenticated" =>
            /\ req[c].response.location \in {req[c].next, IndexUrl}
            /\ req[c].next \in {NoneStr, <<>>} => req[c].response.location = IndexUrl
            /\ IsBarePath(req[c].next) => req[c].response.location = req[c].next

C5_Witness ==
    \E c \in Clients :
        /\ req[c].outcome = "Authenticated"
        /\ req[c].next = <<"/", "d">>
        /\ req[c].response.location = <<"/", "d">>

----------------------------------------------------------------------------
\* the attempt of c ran to its end with a password that is not the one
\* the account it found was given, or found no account
NonVerifying(c) ==
    /\ Concluded(c)
    /\ \/ req[c].user = NoUser
       \/ GivenPassword(req[c].user.password_hash) # req[c].password

(* C6: a rejected attempt looks the same whether the identifier is         *)
(* unknown or known with a wrong password: every attempt with a            *)
(* non-verifying password gets the one response an unknown identifier      *)
(* gets (the login page, the generic message, the fixed delay, no error    *)
(* page) and leaves the session as it was.                                 *)
C6_RejectionIndistinguishable ==
    \A c \in Clients :
        NonVerifying(c) =>
            (req[c].response = RejectedResponse /\ session[c] = 0)

\* a stored hash the verifier cannot verify: empty, unparsable, or of a
\* method it does not know
Unverifiable(h) == Len(h) # 3 \/ h[1] \notin WerkzeugMethods

(* C7: verification fails closed: with a stored hash that is empty,        *)
(* malformed or of an unrecognised scheme, every candidate password is a   *)
(* non-match and the attempt ends as Rejected; no attempt ends in the      *)
(* error page of an exception.                                             *)
C7_VerificationFailsClosed ==
    \A c \in Clients :
        /\ req[c].outcome # "Error"
        /\ ( /\ req[c].pc = "done" /\ req[c].hash_checks = 1
             /\ req[c].outcome # "Aborted"
             /\ Unverifiable(RecordHash(req[c])) )
           => req[c].outcome = "Rejected"

(* C8: round trip: a hash stored by User.set_password for password p is    *)
(* accepted by the login's _verify_password with p and with no other       *)
(* password.                                                               *)
C8_HashRoundTrip ==
    \A i \in 1..Len(users) :
        LET h == users[i].password_hash IN
        (Len(h) = 3 /\ h = BcryptHash(h[3].pw, h[3].salt)) =>
            \A p \in Passwords :
                VerifyPassword(h, p) = (IF p = h[3].pw THEN "True" ELSE "False")

\* the lookups of c's request are over
LookedUp(c) == req[c].pc \in {"verify", "decide"} \/ Concluded(c)

ValidSubmission(r) ==
    /\ r.csrf_ok
    /\ Strip(r.identifier) # <<>>
    /\ Strip(r.password) # <<>>
    /\ Len(r.password) >= PasswordMinLen

(* C10: every submitted login attempt, also one with an empty identifier,  *)
(* an empty password or a password shorter than 8 characters, executes     *)
(* the hash verification before it is turned away.                         *)
C10_EverySubmissionVerifies ==
    \A c \in Clients :
        ( /\ req[c].pc = "done" /\ req[c].csrf_ok
          /\ req[c].outcome \in {"Invalid", "Rejected", "Error", "Authenticated"} )
        => req[c].hash_checks = 1

(* C10 as amended: a submission that passes the form's validation          *)
(* executes the hash verification before its outcome is decided; a         *)
(* submission with an empty identifier, an empty password or a password    *)
(* shorter than 8 characters is turned away by the form's validation,      *)
(* with the login page and its field errors, and no hash verification.     *)
C10_ValidSubmissionVerifies ==
    \A c \in Clients :
        /\ (req[c].pc = "decide" \/ Concluded(c)) =>
              (req[c].hash_checks = 1 /\ ValidSubmission(req[c]))
        /\ req[c].pc \in {"lookup_email", "lookup_username", "verify"} =>
              (req[c].hash_checks = 0 /\ ValidSubmission(req[c]))
        /\ req[c].outcome = "Invalid" =>
              /\ req[c].hash_checks = 0
              /\ ~ValidSubmission(req[c])
              /\ req[c].response = LoginPage(TRUE, "", FALSE)

C10_Witness ==
    \E c \in Clients :
        /\ req[c].outcome = "Rejected" /\ req[c].hash_checks = 1
        /\ req[c].user = NoUser
        /\ req[c].response = RejectedResponse

----------------------------------------------------------------------------
\* the step is one of a login attempt of c (not a logout)
LoginStep(c) == req'[c] # req[c] /\ req'[c].pc # "idle"

(* C11: a login attempt never changes the users table or the dummy hash,   *)
(* whatever its outcome; the session is the only thing it may change, the  *)
(* caller's own and only when the attempt is Authenticated, so a Rejected  *)
(* attempt leaves the session store as it was.                             *)
C11_LoginFrame ==
    [][\A c \in Clients :
          LoginStep(c) =>
              /\ users' = users
              /\ dummy_password_hash' = dummy_password_hash
              /\ \A d \in Clients : d # c => session'[d] = session[d]
              /\ req'[c].outcome # "Authenticated" => session' = session
              /\ req'[c].outcome = "Rejected" => session' = session]_vars

C11_Witness ==
    \E c \in Clients :
        /\ req[c].outcome = "Rejected" /\ req[c].user # NoUser
        /\ session[c] = 0
        /\ users[req[c].user.id] = req[c].user

(* C14: the lookup is by email first, then by username: when the           *)
(* identifier equals account A's lower-cased email (and maybe account B's  *)
(* lower-cased username), the attempt is verified against A's hash only,   *)
(* so a password that is not A's is Rejected; the username lookup is made  *)
(* only when no account matches by email.                                  *)
C14_EmailBeforeUsername ==
    \A c \in Clients :
        ~stale[c] =>
            LET E == EmailRows(Strip(req[c].identifier)) IN
            /\ req[c].pc = "lookup_username" => E = {}
            /\ (LookedUp(c) /\ req[c].match_attr = "username") => E = {}
            /\ (LookedUp(c) /\ E # {}) =>
                  /\ req[c].user.id \in E
                  /\ req[c].match_attr = "email"
                  /\ RecordHash(req[c]) = users[req[c].user.id].password_hash
                  /\ ( /\ Concluded(c)
                       /\ req[c].password # GivenPassword(req[c].user.password_hash) )
                     => req[c].outcome = "Rejected"

(* C15: every attempt that reaches the verifier performs exactly one hash  *)
(* verification: against the matched account's password_hash when an       *)
(* account was found, against the dummy hash otherwise; with no account    *)
(* found the attempt is Rejected also when the password verifies against   *)
(* the dummy hash.                                                         *)
C15_OneVerification ==
    \A c \in Clients :
        /\ req[c].hash_checks \in {0, 1}
        /\ (req[c].pc = "decide" \/ Concluded(c)) => req[c].hash_checks = 1
        /\ req[c].pc = "decide" =>
              req[c].password_matches =
                  VerifyPassword(IF req[c].user # NoUser
                                 THEN req[c].user.password_hash
                                 ELSE dummy_password_hash, req[c].password)
        /\ (Concluded(c) /\ req[c].user = NoUser) => req[c].outcome = "Rejected"

C15_Witness ==
    \E c \in Clients :
        /\ Concluded(c) /\ req[c].user = NoUser
        /\ req[c].password = DummyPassword
        /\ req[c].password_matches = "True"
        /\ req[c].hash_checks = 1
        /\ req[c].outcome = "Rejected" /\ session[c] = 0

----------------------------------------------------------------------------
\* the outcomes of the attempt r when login runs alone, from the guard to
\* its return, against the table `store` (a set: .first() may return any
\* matching row)
AloneOutcomes(store, r) ==
    LET x == Lower(Strip(r.identifier))
        E == {i \in 1..Len(store) :
                 store[i].email # NoneStr /\ Lower(store[i].email) = x}
        U == {i \in 1..Len(store) : Lower(store[i].username) = x}
        found == IF E # {} THEN E ELSE U
        OutcomeOf(h, known) ==
            LET m == VerifyPassword(h, r.password) IN
            IF m = "ValueError" THEN "Error"
            ELSE IF known /\ m = "True" THEN "Authenticated"
            ELSE "Rejected"
    IN IF found = {}
       THEN {OutcomeOf(dummy_password_hash, FALSE)}
       ELSE {OutcomeOf(store[i].password_hash, TRUE) : i \in found}

(* C12: login attempts of different sessions are independent: under every  *)
(* interleaving of their steps an attempt ends with an outcome it has      *)
(* when run alone against the same users table, and a session is           *)
(* established only by an Authenticated attempt, for its own caller and    *)
(* with the id of the account that attempt matched.                        *)
C12_AttemptsIndependent ==
    /\ [](\A c \in Clients :
            (Concluded(c) /\ ~stale[c]) =>
                req[c].outcome \in AloneOutcomes(users, req[c]))
    /\ [][\A c \in Clients :
            session'[c] # session[c] =>
                /\ req[c].pc = "decide" /\ req'[c].outcome = "Authenticated"
                /\ session'[c] = req[c].user.id
                /\ \A d \in Clients : d # c => session'[d] = session[d]]_vars

\* one attempt has ended Authenticated while the other, with a password
\* that is not the account's, is under way and has no session
C12_Witness ==
    \E c, d \in Clients :
        /\ c # d
        /\ req[c].outcome = "Authenticated" /\ session[c] = req[c].user.id
        /\ req[d].pc = "decide" /\ req[d].user = req[c].user
        /\ req[d].password # req[c].password
        /\ session[d] = 0

\* the identifier the matched row holds in the table now, lower-cased
CurrentIdentifier(r) ==
    LET row == users[r.user.id]
        v == IF r.match_attr = "email" THEN row.email ELSE row.username
    IN Lower(IF v = NoneStr THEN <<>> ELSE v)

(* C16: the identifier comparison guards against a change made while the   *)
(* request runs: when the matched account's email or username was changed  *)
(* after the lookup so that the stored field no longer equals the          *)
(* submitted identifier, the attempt ends as Rejected, also when the       *)
(* password verifies.                                                      *)
C16_MidRequestChangeRejected ==
    [][\A c \in Clients :
          ( /\ req[c].pc = "decide" /\ req'[c].pc = "done"
            /\ req[c].user # NoUser
            /\ CurrentIdentifier(req[c]) # req[c].identifier_input )
          => req'[c].outcome = "Rejected"]_vars

----------------------------------------------------------------------------
\* the step is a start of the application (create_app): no request moves
SyncStep == areq' = areq /\ req' = req /\ session' = session

AdminBegins(c) == areq[c].pc = "idle" /\ areq'[c] # areq[c]

\* the step is the writing step of an admin request of c
AdminWrites(c) == areq[c].pc = "write" /\ areq'[c] # areq[c]

\* the user of the session is an administrator
IsAdminUser(id) == id \in 1..Len(users) /\ users[id].is_admin

(* C17: every change made through the admin routes (a file uploaded, a     *)
(* scenario created, duplicated, edited or deleted, an audit entry         *)
(* written) happens in a request whose session user is authenticated and   *)
(* has is_admin; a request of an anonymous or non-admin caller ends at     *)
(* once and leaves the upload directory, the scenario directory and the    *)
(* audit log unchanged; every audit entry carries the id of the user       *)
(* whose request wrote it.                                                 *)
C17_OnlyAdminsChangeState ==
    /\ [][\A c \in Clients :
            /\ (AdminBegins(c) /\ ~IsAdminUser(session[c])) =>
                  /\ areq'[c].pc = "idle"
                  /\ areq'[c].outcome \in {"login", "forbidden"}
                  /\ UNCHANGED <<uploads, scenarios, audit_log>>
            /\ AdminBegins(c) => UNCHANGED <<uploads, scenarios, audit_log>>
            /\ AdminWrites(c) =>
                  /\ session[c] = areq[c].user /\ IsAdminUser(session[c])
                  /\ audit_log' # audit_log =>
                        /\ Len(audit_log') = Len(audit_log) + 1
                        /\ SubSeq(audit_log', 1, Len(audit_log)) = audit_log
                        /\ audit_log'[Len(audit_log')].user_id = session[c]
                  /\ (uploads' # uploads \/ scenarios' # scenarios) =>
                        audit_log' # audit_log]_vars
    /\ [][(uploads' # uploads \/ scenarios' # scenarios \/ audit_log' # audit_log)
            => (SyncStep \/ \E c \in Clients : AdminWrites(c))]_vars
    /\ [](\A i \in 1..Len(audit_log) : IsAdminUser(audit_log[i].user_id))

\* an administrator's upload is on disk and logged, while the other
\* browser, not signed in, was sent to the login view
C17_Witness ==
    \E c, d \in Clients :
        /\ IsAdminUser(session[c]) /\ areq[c].outcome = "ok"
        /\ audit_log # <<>> /\ audit_log[1].user_id = session[c]
        /\ audit_log[1].action = "upload.create"
        /\ session[d] = 0 /\ areq[d].outcome = "login"

\* the audit entry of a request that created a file and reported success
CreatesFile(e) ==
    e.action \in {"upload.create", "scenario.duplicate", "scenario.create"}

\* the two entries are about the same file of the same directory
SameFile(e1, e2) ==
    /\ e1.details = e2.details
    /\ (e1.action = "upload.create") <=> (e2.action = "upload.create")

(* C18: upload_file, duplicate_scenario and new_scenario never overwrite   *)
(* an existing file, also when two admin requests with the same target     *)
(* run concurrently: of the requests that target a file name at most one   *)
(* writes the file and reports success (the other reports that the name    *)
(* exists), so two requests succeed in creating the same file only when    *)
(* the file was deleted in between.                                        *)
C18_NeverOverwrites ==
    \A i, j \in 1..Len(audit_log) :
        ( /\ i < j
          /\ CreatesFile(audit_log[i]) /\ CreatesFile(audit_log[j])
          /\ SameFile(audit_log[i], audit_log[j]) )
        => \E k \in (i + 1)..(j - 1) :
              /\ audit_log[k].action = "scenario.delete"
              /\ SameFile(audit_log[k], audit_log[j])

====
